---------------------------- MODULE Spec2Model ----------------------------
(***************************************************************************)
(* A model of the lenticular viewer: the zigzag geometry generator and    *)
(* the billboard group (js/billboard.js), the settings controls, presets,   *)
(* image slots, storage and the camera sweep of the live preview           *)
(* (js/app.js), and the GIF exporter with its crop, scale and progress     *)
(* arithmetic (js/exporter.js).                                            *)
(*                                                                         *)
(* Numbers.  JavaScript numbers are modelled by exact arithmetic:          *)
(*   - a coordinate or a UV value is a fraction [n |-> .., d |-> ..] with  *)
(*     d > 0, compared by cross multiplication;                            *)
(*   - an angle is an integer in units of 1/20000 degree, so that          *)
(*     -cos(..) * (sweep / 2) is the integer -(Cos2Pi * sweepDegrees)      *)
(*     with Cos2Pi the cosine in units of 1/10000;                         *)
(*   - progress is an integer numerator over FrameCount;                   *)
(*   - time is counted in ticks of 125 ms, so that elapsed / duration with *)
(*     duration = 3000 / (speed / 5) ms is elapsedTicks * speed over       *)
(*     FrameCount;                                                         *)
(*   - a board width or height is an integer number of tenths, a surface   *)
(*     size a number of pixels, and a floored quotient is \div.            *)
(***************************************************************************)
EXTENDS Integers, Sequences, FiniteSets, TLC

VARIABLES
    settings,           \* this.settings: width, height, slats, angle
    geometry,           \* the left/right vertex and uv arrays of the billboard
    sweepAngle,         \* this.sweepAngle, degrees
    animationSpeed,     \* this.animationSpeed
    sweepTab,           \* sweep formula evaluations: progress -> angle
    camera,             \* camera.position on the orbit: azimuth and distance
    theta,              \* orbitControls.getAzimuthalAngle(): set by update()
    isAnimating,        \* this.isAnimating
    pv,                 \* the closure of the running playPreview
    previewBtnDisabled, \* previewBtn.disabled
    exportBtnDisabled,  \* exportBtn.disabled
    exports,            \* one record per GifExporter.export call, in call order
    camWriter,          \* who wrote camera.position last
    cameraY,            \* camera.position.y
    crop,               \* one evaluation of export's crop and scale arithmetic
    reported,           \* one export call's onProgress values, in call order
    billboard,          \* this.billboard: its arguments and its two materials
    sceneBoards,        \* the number of billboard groups in this.scene
    leaked,             \* geometries and materials replaced but not disposed
    textureA,           \* this.textureA
    textureB,           \* this.textureB
    currentPreset,      \* this.currentPreset
    storage,            \* localStorage.getItem('lenticularViewer'), parsed
    sweepTimeout,       \* sweepTimeout of initAnimationControls: a timer id
    timers,             \* the pending timeouts of the sweep slider's handler
    sinceAdjust,        \* history: what was started since the last adjustment
    previewSrc,         \* the src of the two .upload-preview thumbnails
    imageAspect,        \* this.imageAspectA, this.imageAspectB (0 for null)
    loads,              \* the callbacks of loadImage calls not yet run
    chosen,             \* history: the file last chosen for each slot's content
    viewport,           \* .viewport: clientWidth, clientHeight; the pixel ratio
    safezone            \* the safe-zone overlay: visible, and its border's box

vars == << settings, geometry, sweepAngle, animationSpeed, sweepTab, camera,
           theta, isAnimating, pv, previewBtnDisabled,
           exportBtnDisabled, exports, camWriter, cameraY, crop, reported,
           billboard, sceneBoards, leaked, textureA, textureB, currentPreset,
           storage, sweepTimeout, timers, sinceAdjust, previewSrc,
           imageAspect, loads, chosen, viewport, safezone >>

boardVars == << billboard, sceneBoards, leaked, safezone >>
textureVars == << textureA, textureB >>
geomVars == << settings, geometry, boardVars, textureVars, currentPreset,
               storage >>
camVars  == << camera, theta, isAnimating, pv, previewBtnDisabled,
               exportBtnDisabled, exports, camWriter, cameraY >>
timerVars == << sweepTimeout, timers, sinceAdjust >>
imageVars == << previewSrc, imageAspect, loads, chosen >>
auxVars  == << crop, reported, timerVars, imageVars, viewport >>
nonCamVars == << geomVars, sweepAngle, animationSpeed, sweepTab, auxVars >>

-----------------------------------------------------------------------------
(* Bounds of the model.                                                    *)

MaxSlats == 5
MaxSweepDeg == 180
MaxExports == 2

\* Board dimensions, in tenths of a unit (3 x 1.5 is the default board).
Widths  == {20, 30, 360}
Heights == {15, 60}
\* Slat angles in degrees, with tan(angle) in units of 1/1000.
Angles  == {0, 1, 30, 45, 60, 89}
Tan1000 == [a \in Angles |->
              CASE a = 0 -> 0 [] a = 1 -> 17 [] a = 30 -> 577 [] a = 45 -> 1000
                [] a = 60 -> 1732 [] a = 89 -> 57290]

-----------------------------------------------------------------------------
(* Fractions.                                                              *)

Frac(n, d) == [n |-> n, d |-> d]
FEq(a, b) == a.n * b.d = b.n * a.d
FLe(a, b) == a.n * b.d <= b.n * a.d
FLt(a, b) == a.n * b.d < b.n * a.d
FAdd(a, b) == Frac(a.n * b.d + b.n * a.d, a.d * b.d)
FZero == Frac(0, 1)
FOne  == Frac(1, 1)

-----------------------------------------------------------------------------
(* js/billboard.js: createZigzagGeometry                                   *)

\* A peak depth without the tangent: slatWidth / 2.
peakDepthNoTan(width, slats, angle) == Frac(width * 1000, slats * 2 * 1000)

\* peakDepth = (slatWidth / 2) * Math.tan(angleRad), slatWidth = width / slats
peakDepth(width, slats, angle) == Frac(width * Tan1000[angle], slats * 2 * 1000)

\* xLeft, xMid, xRight of slat i (the loop variable, 0-based)
xLeft(i, width, slats)  == Frac(2 * i * width - slats * width, 2 * slats)
xMid(i, width, slats)   == Frac((2 * i + 1) * width - slats * width, 2 * slats)
\* xRight stopping at the middle of the slat.
xRightHalfSlat(i, width, slats) ==
    Frac((2 * i + 1) * width - slats * width, 2 * slats)
xRight(i, width, slats) == Frac(2 * (i + 1) * width - slats * width, 2 * slats)

\* uLeft = i / slats, uMid = (i + 0.5) / slats, uRight = (i + 1) / slats
uLeft(i, slats)  == Frac(2 * i, 2 * slats)
uMid(i, slats)   == Frac(2 * i + 1, 2 * slats)
\* uRight taken one slat too far: (i + 2) / slats.
uRightNextSlat(i, slats) == Frac(2 * (i + 2), 2 * slats)
uRight(i, slats) == Frac(2 * (i + 1), 2 * slats)

\* The numbers one pass of the loop pushes to leftVertices (two triangles).
leftVerticesOfSlat(i, width, height, slats, angle) ==
    LET xl == xLeft(i, width, slats)
        xm == xMid(i, width, slats)
        yb == Frac(-height, 2)
        yt == Frac(height, 2)
        pd == peakDepth(width, slats, angle)
    IN  << xl, yb, FZero,  xm, yb, pd,  xl, yt, FZero,
           xl, yt, FZero,  xm, yb, pd,  xm, yt, pd >>

\* The numbers one pass of the loop pushes to leftUvs.
leftUvsOfSlat(i, slats) ==
    LET ul == uLeft(i, slats)
        um == uMid(i, slats)
    IN  << ul, FZero,  um, FZero,  ul, FOne,
           ul, FOne,   um, FZero,  um, FOne >>

\* The right face with its second triangle listed the other way round.
rightVerticesOfSlatClockwise(i, width, height, slats, angle) ==
    LET xm == xMid(i, width, slats)
        xr == xRight(i, width, slats)
        yb == Frac(-height, 2)
        yt == Frac(height, 2)
        pd == peakDepth(width, slats, angle)
    IN  << xm, yb, pd,  xr, yb, FZero,  xm, yt, pd,
           xm, yt, pd,  xr, yt, FZero,  xr, yb, FZero >>

\* The numbers one pass of the loop pushes to rightVertices.
rightVerticesOfSlat(i, width, height, slats, angle) ==
    LET xm == xMid(i, width, slats)
        xr == xRight(i, width, slats)
        yb == Frac(-height, 2)
        yt == Frac(height, 2)
        pd == peakDepth(width, slats, angle)
    IN  << xm, yb, pd,  xr, yb, FZero,  xm, yt, pd,
           xm, yt, pd,  xr, yb, FZero,  xr, yt, FZero >>

\* The numbers one pass of the loop pushes to rightUvs.
rightUvsOfSlat(i, slats) ==
    LET um == uMid(i, slats)
        ur == uRight(i, slats)
    IN  << um, FZero,  ur, FZero,  um, FOne,
           um, FOne,   ur, FZero,  ur, FOne >>

\* for (let i = 0; i < slats; i++) { ... push ... }: the arrays after the
\* passes i = from .. slats - 1, appended to acc.
RECURSIVE zigzagLoop(_, _, _, _, _, _)
zigzagLoop(i, width, height, slats, angle, acc) ==
    IF i >= slats THEN acc
    ELSE zigzagLoop(i + 1, width, height, slats, angle,
           [leftVertices  |-> acc.leftVertices
                                \o leftVerticesOfSlat(i, width, height, slats, angle),
            leftUvs       |-> acc.leftUvs \o leftUvsOfSlat(i, slats),
            rightVertices |-> acc.rightVertices
                                \o rightVerticesOfSlat(i, width, height, slats, angle),
            rightUvs      |-> acc.rightUvs \o rightUvsOfSlat(i, slats)])

\* A loop that starts at the second slat.
createZigzagGeometrySkipFirst(width, height, slats, angle) ==
    zigzagLoop(1, width, height, slats, angle,
               [leftVertices |-> << >>, leftUvs |-> << >>,
                rightVertices |-> << >>, rightUvs |-> << >>])

createZigzagGeometry(width, height, slats, angle) ==
    zigzagLoop(0, width, height, slats, angle,
               [leftVertices |-> << >>, leftUvs |-> << >>,
                rightVertices |-> << >>, rightUvs |-> << >>])

-----------------------------------------------------------------------------
(* The geometry as the viewer holds it: initScene builds the billboard     *)
(* from the settings, and every change of a setting rebuilds it.           *)

InitGeometry ==
    /\ settings \in [width : Widths, height : Heights,
                     slats : 1..MaxSlats, angle : Angles]
    /\ geometry = createZigzagGeometry(settings.width, settings.height,
                                       settings.slats, settings.angle)

\* null
Null == "null"

\* The two image slots, by the textureKey of setupZone.
TextureKeys == {"textureA", "textureB"}

\* The colours of createBillboardGroup: 0xffffff, 0x4a90d9, 0xd94a4a.
White == 16777215
PlaceholderA == 4886745
PlaceholderB == 14240330

\* Material B with the colour of material A.
materialBLikeA(texture) ==
    [color |-> IF texture # Null THEN White ELSE PlaceholderA,
     map   |-> texture]

\* new THREE.MeshStandardMaterial({ color: textureA ? 0xffffff : 0x4a90d9,
\*                                  map: textureA, side: THREE.FrontSide })
materialA(texture) ==
    [color |-> IF texture # Null THEN White ELSE PlaceholderA,
     map   |-> texture]

\* new THREE.MeshStandardMaterial({ color: textureB ? 0xffffff : 0xd94a4a,
\*                                  map: textureB, side: THREE.FrontSide })
materialB(texture) ==
    [color |-> IF texture # Null THEN White ELSE PlaceholderB,
     map   |-> texture]

\* createBillboardGroup: the group, by the arguments it hands to
\* createZigzagGeometry and by its materials (the two geometries are held in
\* the variable geometry).
createBillboardGroup(width, height, slats, angle, texA, texB) ==
    [width |-> width, height |-> height, slats |-> slats, angle |-> angle,
     materialA |-> materialA(texA), materialB |-> materialB(texB)]

\* What a billboard group owns, and what updateBillboard disposes of the
\* group it replaces.
BillboardResources ==
    {"leftGeometry", "rightGeometry", "materialA", "materialB"}

\* Disposal of the two geometries alone.
DisposedGeometriesOnly == {"leftGeometry", "rightGeometry"}

DisposedByUpdate ==
    {"leftGeometry", "rightGeometry", "materialA", "materialB"}

\* saveToLocalStorage: JSON.stringify of the four fields, as a record.
saveToLocalStorage(set, speed, sweep, preset) ==
    [settings |-> set, animationSpeed |-> speed, sweepAngle |-> sweep,
     currentPreset |-> preset]

\* The viewport of the page: its size in CSS pixels and
\* window.devicePixelRatio as a fraction.
DefaultViewport == [clientWidth |-> 800, clientHeight |-> 600,
                    pixelRatio |-> [n |-> 1, d |-> 1]]

\* The overlay before updateSafezone has set any style.
NoSafezone == [visible |-> FALSE, cropWidth |-> 0, cropHeight |-> 0,
               cropX |-> 0, cropY |-> 0]

\* The overlay's box with the top/bottom crop starting at the top.
safezoneRectangleFromTop(viewportWidth, viewportHeight, boardWidth, boardHeight) ==
    IF viewportWidth * boardHeight > boardWidth * viewportHeight
    THEN LET cropWidth == (viewportHeight * boardWidth) \div boardHeight
         IN  [cropWidth |-> cropWidth, cropHeight |-> viewportHeight,
              cropX |-> (viewportWidth - cropWidth) \div 2, cropY |-> 0]
    ELSE LET cropHeight == (viewportWidth * boardHeight) \div boardWidth
         IN  [cropWidth |-> viewportWidth, cropHeight |-> cropHeight,
              cropX |-> 0, cropY |-> 0]

\* updateSafezone: billboardAspect = settings.width / settings.height,
\* viewportAspect = viewportWidth / viewportHeight, and the box the border
\* gets (left, top, width, height in px).
safezoneRectangle(viewportWidth, viewportHeight, boardWidth, boardHeight) ==
    IF viewportWidth * boardHeight > boardWidth * viewportHeight
    THEN LET cropWidth == (viewportHeight * boardWidth) \div boardHeight
         IN  [cropWidth |-> cropWidth, cropHeight |-> viewportHeight,
              cropX |-> (viewportWidth - cropWidth) \div 2, cropY |-> 0]
    ELSE LET cropHeight == (viewportWidth * boardHeight) \div boardWidth
         IN  [cropWidth |-> viewportWidth, cropHeight |-> cropHeight,
              cropX |-> 0, cropY |-> (viewportHeight - cropHeight) \div 2]

\* updateSafezone() for an overlay zone, a viewport view and a board w x h:
\* nothing unless the overlay is visible.
updateSafezone(zone, view, w, h) ==
    IF ~zone.visible THEN zone
    ELSE [visible |-> TRUE]
           @@ safezoneRectangle(view.clientWidth, view.clientHeight, w, h)

\* updateBillboard after the settings became w, h, s, a: the old group
\* leaves the scene and is disposed, createBillboardGroup builds the new one
\* from the settings and the textures, the scene takes it, and the safe
\* zone is updated.
updateBillboard(w, h, s, a) ==
    /\ settings' = [width |-> w, height |-> h, slats |-> s, angle |-> a]
    /\ geometry' = createZigzagGeometry(w, h, s, a)
    /\ billboard' = createBillboardGroup(w, h, s, a, textureA', textureB')
    /\ sceneBoards' = (sceneBoards - 1) + 1
    /\ leaked' = leaked + Cardinality(BillboardResources \ DisposedByUpdate)
    /\ safezone' = updateSafezone(safezone, viewport, w, h)

-----------------------------------------------------------------------------
(* The sweep formula, js/app.js (animatePreview) and js/exporter.js.       *)

FrameCount == 120

\* Math.cos(progress * Math.PI * 2) for progress = p / FrameCount, in units
\* of 1/10000.
CosTab ==
    << 10000, 9986, 9945, 9877, 9781, 9659, 9511, 9336, 9135, 8910, 8660, 8387,
       8090, 7771, 7431, 7071, 6691, 6293, 5878, 5446, 5000, 4540, 4067, 3584,
       3090, 2588, 2079, 1564, 1045, 523, 0, -523, -1045, -1564, -2079, -2588,
       -3090, -3584, -4067, -4540, -5000, -5446, -5878, -6293, -6691, -7071,
       -7431, -7771, -8090, -8387, -8660, -8910, -9135, -9336, -9511, -9659,
       -9781, -9877, -9945, -9986, -10000, -9986, -9945, -9877, -9781, -9659,
       -9511, -9336, -9135, -8910, -8660, -8387, -8090, -7771, -7431, -7071,
       -6691, -6293, -5878, -5446, -5000, -4540, -4067, -3584, -3090, -2588,
       -2079, -1564, -1045, -523, 0, 523, 1045, 1564, 2079, 2588, 3090, 3584,
       4067, 4540, 5000, 5446, 5878, 6293, 6691, 7071, 7431, 7771, 8090, 8387,
       8660, 8910, 9135, 9336, 9511, 9659, 9781, 9877, 9945, 9986, 10000 >>
Cos2Pi(p) == CosTab[p + 1]

\* An angle of d degrees in the model's unit, 1/20000 degree.
Deg(d) == d * 20000

Min(a, b) == IF a <= b THEN a ELSE b

\* A progress that stops one step short of 1.
PreviewProgressBelowOne(elapsed, speed) ==
    Min((elapsed * speed * FrameCount) \div 120, FrameCount - 1)

\* animatePreview: progress = Math.min(elapsed / duration, 1) with
\* duration = 3000 / (speed / 5) ms = 120 / speed ticks, as a numerator over
\* FrameCount.
PreviewProgress(elapsed, speed) ==
    Min((elapsed * speed * FrameCount) \div 120, FrameCount)

\* The preview angle with a half cycle: -cos(progress * PI).
PreviewAngleHalfCycle(progress, sweepDeg) ==
    -(Cos2Pi(progress \div 2) * sweepDeg)

\* animatePreview: sweepAngle = Math.PI * (this.sweepAngle / 180),
\* angle = -Math.cos(progress * Math.PI * 2) * (sweepAngle / 2)
PreviewAngle(progress, sweepDeg) == -(Cos2Pi(progress) * sweepDeg)

\* export: progress = i / frameCount, as a numerator over FrameCount
ExportProgress(i) == (i * FrameCount) \div FrameCount

\* The export angle with the cosine's sign lost: cos(..) * (sweep / 2).
ExportAngleNoMinus(i, sweepDeg) == Cos2Pi(ExportProgress(i)) * sweepDeg

\* export: sweepAngle = Math.PI * (sweepAngleDegrees / 180),
\* angle = -Math.cos(progress * Math.PI * 2) * (sweepAngle / 2)
ExportAngle(i, sweepDeg) == -(Cos2Pi(ExportProgress(i)) * sweepDeg)

\* A position one unit beyond the orbit.
OrbitPositionBeyond(angle, distance) == [az |-> angle, dist |-> distance + 1]

\* camera.position.x = Math.sin(angle) * distance,
\* camera.position.z = Math.cos(angle) * distance: the point of the orbit of
\* radius distance at azimuth angle.
OrbitPosition(angle, distance) == [az |-> angle, dist |-> distance]

-----------------------------------------------------------------------------
(* The camera, the preview and the export: js/app.js and js/exporter.js.   *)

\* Inputs of the model.
Sweeps        == {110}                    \* this.sweepAngle, degrees
Speeds        == {2}                      \* this.animationSpeed
FrameTicks    == {30}                     \* time between two frames, ticks
UserAzimuths  == {Deg(45)}                \* where a drag leaves the camera
UserDistances == {8}                      \* where the wheel leaves the camera

\* What can go wrong in one export call: nothing, the loop throwing in pass
\* `at` (renderer.render, or gif.addFrame, which leaves the same frames and
\* the same pose behind), gif.render throwing.
Failures ==
    {[kind |-> "none", at |-> FrameCount],
     [kind |-> "render", at |-> 45],
     [kind |-> "finalize", at |-> FrameCount]}

NoPreview == [active |-> FALSE, originalAzimuth |-> 0, distance |-> 0,
              elapsed |-> 0, sweep |-> 0, speed |-> 0]

InitCamera ==
    /\ camera = OrbitPosition(0, 5)         \* camera.position.set(0, 0, 5)
    /\ theta = 0
    /\ isAnimating = FALSE
    /\ pv = NoPreview
    /\ previewBtnDisabled = FALSE
    /\ exportBtnDisabled \in BOOLEAN        \* the page's markup decides
    /\ exports = << >>
    /\ camWriter = "init"
    /\ cameraY = 0                          \* camera.position.set(0, 0, 5)
    /\ sweepTimeout = 0                     \* let sweepTimeout = null
    /\ timers = {}
    /\ sinceAdjust = "none"

\* One animation frame: animate() runs orbitControls.update(), which applies
\* the user's pending drag and zoom to the camera and sets the azimuth it
\* reports, with the polar angle clamped to PI / 2 (minPolarAngle =
\* maxPolarAngle), so that y = radius * cos(PI / 2) = 0; then, while a
\* preview runs, animatePreview(currentTime), which writes position.x and
\* position.z.
AnimationFrame(dt, dragTo, zoomTo) ==
    LET moved    == dragTo # camera.az \/ zoomTo # camera.dist
        elapsed  == pv.elapsed + dt
        progress == PreviewProgress(elapsed, pv.speed)
        angle    == PreviewAngle(progress, pv.sweep)
    IN  /\ theta' = dragTo
        /\ IF ~pv.active
           THEN /\ camera' = OrbitPosition(dragTo, zoomTo)
                /\ camWriter' = IF moved THEN "user" ELSE camWriter
                /\ UNCHANGED << isAnimating, pv, previewBtnDisabled,
                                exportBtnDisabled >>
           ELSE IF progress < FrameCount
           THEN /\ camera' = OrbitPosition(angle, pv.distance)
                /\ camWriter' = "preview"
                /\ pv' = [pv EXCEPT !.elapsed = elapsed]
                /\ UNCHANGED << isAnimating, previewBtnDisabled,
                                exportBtnDisabled >>
           ELSE /\ isAnimating' = FALSE
                /\ previewBtnDisabled' = FALSE
                /\ exportBtnDisabled' = FALSE
                /\ camera' = OrbitPosition(pv.originalAzimuth, pv.distance)
                /\ camWriter' = "preview"
                /\ pv' = NoPreview
        /\ cameraY' = 0
        /\ UNCHANGED exports

\* A click on the preview button.
playPreview ==
    /\ ~previewBtnDisabled
    /\ IF isAnimating
       THEN UNCHANGED << isAnimating, previewBtnDisabled, pv >>
       ELSE /\ isAnimating' = TRUE
            /\ previewBtnDisabled' = TRUE
            /\ pv' = [active |-> TRUE, originalAzimuth |-> theta,
                      distance |-> camera.dist,   \* position.length(), y = 0
                      elapsed |-> 0,
                      sweep |-> sweepAngle, speed |-> animationSpeed]
    /\ UNCHANGED << camera, theta, exportBtnDisabled, exports, camWriter,
                    cameraY >>

\* The frames of a loop that runs one pass too many (i <= frameCount).
capturedFramesInclusive(n, sweepDeg, distance) ==
    [k \in 1..(n + 1) |->
        [progress |-> ExportProgress(k - 1),
         pose     |-> OrbitPosition(ExportAngle(k - 1, sweepDeg), distance)]]

\* The frames the loop of export has appended after n passes.
capturedFrames(n, sweepDeg, distance) ==
    [k \in 1..n |->
        [progress |-> ExportProgress(k - 1),
         pose     |-> OrbitPosition(ExportAngle(k - 1, sweepDeg), distance)]]

\* GifExporter.export: the record of the call when export returns its
\* promise or throws, and the pose it leaves the camera in.
GifExporterExport(fail) ==
    LET originalAzimuth == theta
        distance  == camera.dist
        loopFails == fail.kind = "render"
        passes    == IF loopFails THEN fail.at ELSE FrameCount
    IN  [camera |-> IF loopFails
                    THEN OrbitPosition(ExportAngle(fail.at, sweepAngle), distance)
                    ELSE OrbitPosition(originalAzimuth, distance),
         call   |-> [originalAzimuth |-> originalAzimuth,
                     distance   |-> distance,
                     sweep      |-> sweepAngle,
                     frames     |-> capturedFrames(passes, sweepAngle, distance),
                     failure    |-> fail.kind,
                     encoder    |-> IF fail.kind = "none" THEN "running" ELSE "idle",
                     promise    |-> IF fail.kind = "none" THEN "pending" ELSE "rejected",
                     concurrent |-> \E j \in 1..Len(exports) :
                                        exports[j].promise = "pending"]]

\* A click on the export button: exportGif up to its await and, when the
\* promise is rejected at once, its finally block.
exportGif(fail) ==
    /\ ~exportBtnDisabled
    /\ Len(exports) < MaxExports
    /\ LET r == GifExporterExport(fail)
       IN  /\ camera' = r.camera
           /\ exports' = Append(exports, r.call)
           /\ exportBtnDisabled' = (r.call.promise = "pending")
           /\ previewBtnDisabled' = (r.call.promise = "pending")
    /\ camWriter' = "export"
    /\ UNCHANGED << theta, isAnimating, pv, cameraY >>

\* A 'finished' handler that puts the camera back once more.
encoderFinishedRestores(k) ==
    /\ exports[k].encoder = "running"
    /\ exports' = [exports EXCEPT ![k].encoder = "finished",
                                  ![k].promise = "resolved"]
    /\ exportBtnDisabled' = FALSE
    /\ previewBtnDisabled' = FALSE
    /\ camera' = OrbitPosition(exports[k].originalAzimuth, exports[k].distance)
    /\ camWriter' = "export"
    /\ UNCHANGED << theta, isAnimating, pv, cameraY >>

\* gif 'finished': the download, resolve(), and exportGif's finally block.
encoderFinished(k) ==
    /\ exports[k].encoder = "running"
    /\ exports' = [exports EXCEPT ![k].encoder = "finished",
                                  ![k].promise = "resolved"]
    /\ exportBtnDisabled' = FALSE
    /\ previewBtnDisabled' = FALSE
    /\ UNCHANGED << camera, theta, isAnimating, pv, camWriter, cameraY >>

\* The encoder fails after gif.render() returned (a worker dies or its
\* script cannot be loaded): export registers no handler for it.
encoderFailed(k) ==
    /\ exports[k].encoder = "running"
    /\ exports' = [exports EXCEPT ![k].encoder = "failed",
                                  ![k].failure = "worker"]
    /\ UNCHANGED << camera, theta, isAnimating, pv, previewBtnDisabled,
                    exportBtnDisabled, camWriter, cameraY >>

\* Positions of the sweep slider, degrees, and the number of adjustments.
SweepSliderValues == {0, 90}
MaxAdjustments == 2

\* extremeAngle = -sweepRad / 2 for sweepRad = Math.PI * (sweepAngle / 180)
ExtremeAngle(sweepDeg) == -(10000 * sweepDeg)

\* sweepSlider 'input': the camera goes to the left extreme, the pending
\* timeout is cleared (clearing one that has fired does nothing), a new one
\* is set with the distance read here, and the settings are saved.  A
\* timeout counts the animation frames it has seen.
sweepSliderInput(v) ==
    /\ sweepTimeout < MaxAdjustments
    /\ sweepAngle' = v
    /\ camera' = OrbitPosition(ExtremeAngle(v), camera.dist)
    /\ camWriter' = "slider"
    /\ timers' = {t \in timers : t.id # sweepTimeout}
                    \cup {[id |-> sweepTimeout + 1, distance |-> camera.dist,
                           frames |-> 0]}
    /\ sweepTimeout' = sweepTimeout + 1
    /\ storage' = saveToLocalStorage(settings, animationSpeed, sweepAngle',
                                     currentPreset)
    /\ UNCHANGED << settings, geometry, boardVars, textureVars, currentPreset,
                    animationSpeed >>
    /\ UNCHANGED << theta, isAnimating, pv, previewBtnDisabled,
                    exportBtnDisabled, exports, cameraY >>

\* The timeout set by the sweep slider's handler fires, 1 s after it was
\* set: position.x = 0, position.z = distance.
sweepTimerFires(t) ==
    /\ t \in timers
    /\ timers' = timers \ {t}
    /\ camera' = OrbitPosition(0, t.distance)
    /\ camWriter' = "timer"
    /\ UNCHANGED << theta, isAnimating, pv, previewBtnDisabled,
                    exportBtnDisabled, exports, cameraY, sweepTimeout >>

-----------------------------------------------------------------------------
(* js/exporter.js: the crop rectangle and the output size of export.       *)
(* Sizes are whole pixels; the board's width and height are in tenths, and *)
(* a ratio is kept exact: Math.floor(height * (bw / bh)) is                *)
(* (height * bw) \div bh.                                                   *)

\* Surface sizes (canvas.width, canvas.height) and maxWidth values.
SurfaceWidths  == {1, 2, 800, 1600}
SurfaceHeights == {1, 600, 1200}
MaxWidths      == {1, 700, 2000}

\* The crop with the aspect comparison reversed.
cropRectangleSwapped(width, height, billboardWidth, billboardHeight) ==
    IF width * billboardHeight < billboardWidth * height
    THEN LET cropWidth == (height * billboardWidth) \div billboardHeight
         IN  [cropWidth |-> cropWidth, cropHeight |-> height,
              cropX |-> (width - cropWidth) \div 2, cropY |-> 0]
    ELSE LET cropHeight == (width * billboardHeight) \div billboardWidth
         IN  [cropWidth |-> width, cropHeight |-> cropHeight,
              cropX |-> 0, cropY |-> (height - cropHeight) \div 2]

\* The crop pushed to the far edge instead of centred.
cropRectangleFarEdge(width, height, billboardWidth, billboardHeight) ==
    IF width * billboardHeight > billboardWidth * height
    THEN LET cropWidth == (height * billboardWidth) \div billboardHeight
         IN  [cropWidth |-> cropWidth, cropHeight |-> height,
              cropX |-> width - cropWidth, cropY |-> 0]
    ELSE LET cropHeight == (width * billboardHeight) \div billboardWidth
         IN  [cropWidth |-> width, cropHeight |-> cropHeight,
              cropX |-> 0, cropY |-> height - cropHeight]

\* billboardAspect = billboardWidth / billboardHeight,
\* viewportAspect = width / height; viewportAspect > billboardAspect is
\* width * billboardHeight > billboardWidth * height for positive sizes.
cropRectangle(width, height, billboardWidth, billboardHeight) ==
    IF width * billboardHeight > billboardWidth * height
    THEN LET cropWidth == (height * billboardWidth) \div billboardHeight
         IN  [cropWidth |-> cropWidth, cropHeight |-> height,
              cropX |-> (width - cropWidth) \div 2, cropY |-> 0]
    ELSE LET cropHeight == (width * billboardHeight) \div billboardWidth
         IN  [cropWidth |-> width, cropHeight |-> cropHeight,
              cropX |-> 0, cropY |-> (height - cropHeight) \div 2]

\* The output size with scale = maxWidth / cropWidth, not clamped to 1.
outputSizeUnclamped(cropWidth, cropHeight, maxWidth) ==
    IF cropWidth = 0
    THEN [outputWidth |-> cropWidth, outputHeight |-> cropHeight]
    ELSE [outputWidth  |-> (cropWidth * maxWidth) \div cropWidth,
          outputHeight |-> (cropHeight * maxWidth) \div cropWidth]

\* scale = Math.min(1, maxWidth / cropWidth) (maxWidth / 0 is Infinity),
\* outputWidth = Math.floor(cropWidth * scale),
\* outputHeight = Math.floor(cropHeight * scale)
outputSize(cropWidth, cropHeight, maxWidth) ==
    IF cropWidth = 0 \/ maxWidth >= cropWidth
    THEN [outputWidth |-> cropWidth, outputHeight |-> cropHeight]
    ELSE [outputWidth  |-> (cropWidth * maxWidth) \div cropWidth,
          outputHeight |-> (cropHeight * maxWidth) \div cropWidth]

NoCrop == [done |-> FALSE]

\* The inputs of one export call: the surface, the board, maxWidth.
CropInputs ==
    [done : {FALSE}, width : SurfaceWidths, height : SurfaceHeights,
     billboardWidth : Widths, billboardHeight : Heights, maxWidth : MaxWidths]

\* exporter.js 9-36 for the inputs held in crop.
exportCrop ==
    /\ ~crop.done
    /\ LET rect == cropRectangle(crop.width, crop.height,
                                 crop.billboardWidth, crop.billboardHeight)
           out  == outputSize(rect.cropWidth, rect.cropHeight, crop.maxWidth)
       IN  crop' = [crop EXCEPT !.done = TRUE] @@ rect @@ out

\* WebGLRenderer.setSize with the pixel ratio of setPixelRatio: the canvas
\* is floor(client * pixelRatio) device pixels.
CanvasSize(client, pixelRatio) == (client * pixelRatio.n) \div pixelRatio.d

\* The viewports a page is opened in or resized to.
ClientWidths  == {800, 801}
ClientHeights == {600, 601}
PixelRatios   == {[n |-> 1, d |-> 1], [n |-> 2, d |-> 1], [n |-> 3, d |-> 2]}

\* exportGif's call of export on the canvas as it is now: the crop and the
\* output size for the board of the settings and the default maxWidth.
exportCropOfCanvas ==
    LET width  == CanvasSize(viewport.clientWidth, viewport.pixelRatio)
        height == CanvasSize(viewport.clientHeight, viewport.pixelRatio)
        rect   == cropRectangle(width, height, settings.width, settings.height)
        out    == outputSize(rect.cropWidth, rect.cropHeight, 700)
    IN  crop' = [done |-> TRUE, width |-> width, height |-> height,
                 billboardWidth |-> settings.width,
                 billboardHeight |-> settings.height, maxWidth |-> 700]
                  @@ rect @@ out

\* showSafezone 'change'
showSafezoneChange(checked) ==
    safezone' = updateSafezone([safezone EXCEPT !.visible = checked], viewport,
                               settings.width, settings.height)

\* onResize after the viewport became clientWidth x clientHeight
onResize(clientWidth, clientHeight) ==
    /\ viewport' = [viewport EXCEPT !.clientWidth = clientWidth,
                                    !.clientHeight = clientHeight]
    /\ safezone' = updateSafezone(safezone, viewport', settings.width,
                                  settings.height)

-----------------------------------------------------------------------------
(* js/exporter.js: the values export hands to onProgress.  A value is a    *)
(* numerator over ProgressUnit; the encoder's own progress p is a number   *)
(* of quarters.                                                            *)

ProgressUnit == 240
MaxProgressEvents == 3
EncoderQuarters == 0..4

\* The capture value without the factor 0.5.
CaptureProgressWhole(i) == ((i + 1) * ProgressUnit) \div FrameCount

\* onProgress((i + 1) / frameCount * 0.5)
CaptureProgress(i) == ((i + 1) * ProgressUnit) \div (FrameCount * 2)

\* onProgress(0.5 + p * 0.5) for p = q / 4
EncodeProgress(q) == ProgressUnit \div 2 + (q * ProgressUnit) \div (4 * 2)

NoReports == [i |-> 0, values |-> << >>, ps |-> << >>]

\* One pass of the capture loop, as far as onProgress is concerned.
captureFrame ==
    /\ reported.i < FrameCount
    /\ reported' = [reported EXCEPT
                       !.i = @ + 1,
                       !.values = Append(@, CaptureProgress(reported.i))]

\* gif 'progress' with p = q / 4, after the loop.
encoderProgress(q) ==
    /\ reported.i = FrameCount
    /\ Len(reported.ps) < MaxProgressEvents
    /\ reported' = [reported EXCEPT
                       !.values = Append(@, EncodeProgress(q)),
                       !.ps = Append(@, q)]

InitAux ==
    /\ crop = NoCrop
    /\ reported = NoReports
    /\ viewport = DefaultViewport

\* initScene for settings that came from storage: no texture is loaded, one
\* billboard is in the scene.
InitBoard ==
    /\ textureA = Null
    /\ textureB = Null
    /\ currentPreset = Null
    /\ storage = saveToLocalStorage(settings, animationSpeed, sweepAngle, Null)
    /\ billboard = createBillboardGroup(settings.width, settings.height,
                                        settings.slats, settings.angle,
                                        Null, Null)
    /\ sceneBoards = 1
    /\ leaked = 0
    /\ safezone = NoSafezone
    /\ previewSrc = [k \in TextureKeys |-> Null]
    /\ imageAspect = [k \in TextureKeys |-> 0]
    /\ loads = {}
    /\ chosen = [files |-> [k \in TextureKeys |-> Null], n |-> 0]

-----------------------------------------------------------------------------
(* js/app.js: the settings controls, the presets, the image slots and the  *)
(* storage.  Widths and heights are in tenths.                             *)

MaxBoardTenths == 30

\* What the user can type into the width and height fields, and what
\* parseFloat makes of it (in tenths).
TypedTexts == {"", "0", "-3", "2"}

parseFloat(text) ==
    CASE text = ""   -> [nan |-> TRUE,  value |-> 0]
      [] text = "0"  -> [nan |-> FALSE, value |-> 0]
      [] text = "-3" -> [nan |-> FALSE, value |-> -30]
      [] text = "2"  -> [nan |-> FALSE, value |-> 20]

\* parseFloat(e.target.value) || 1: NaN and 0 are falsy.
parseFloatOr1(text) ==
    LET x == parseFloat(text)
    IN  IF x.nan \/ x.value = 0 THEN 10 ELSE x.value

\* Positions of the two sliders.
SlatsSliderValues == {5}
AngleSliderValues == {60}

\* this.presets, for the preset whose sizes are whole tenths.
PresetIds == {"20136"}
presets == [id \in PresetIds |->
              [width |-> 360, height |-> 60, slats |-> 27, angle |-> 45]]

\* The options of the preset selector: no preset, or a preset.
PresetOptions == {""} \cup PresetIds

\* The textures the loader can deliver.
Textures == {"t1"}

\* n / d for d # 0 where d divides n.
Quotient(n, d) == IF d > 0 THEN n \div d ELSE (-n) \div (-d)

\* newValue * ratio for ratio = num / den is followed where it is a whole
\* number of tenths within the bound.
ScalesExactly(newValue, num, den) ==
    /\ den # 0
    /\ Quotient(newValue * num, den) * den = newValue * num
    /\ Quotient(newValue * num, den) <= MaxBoardTenths
    /\ -MaxBoardTenths <= Quotient(newValue * num, den)

\* A handler's updateBillboard() and saveToLocalStorage() after it set the
\* settings to w, h, s, a.
updateAndSave(w, h, s, a) ==
    /\ UNCHANGED << textureVars, currentPreset >>
    /\ updateBillboard(w, h, s, a)
    /\ storage' = saveToLocalStorage(settings', animationSpeed, sweepAngle,
                                     currentPreset')

\* slatsSlider 'input'
slatsSliderInput(v) ==
    updateAndSave(settings.width, settings.height, v, settings.angle)

\* angleSlider 'input'
angleSliderInput(v) ==
    updateAndSave(settings.width, settings.height, settings.slats, v)

\* widthInput 'input'
widthInput(text, lockAspect) ==
    LET newWidth == parseFloatOr1(text)
    IN  IF lockAspect
        THEN /\ ScalesExactly(newWidth, settings.height, settings.width)
             /\ updateAndSave(newWidth,
                              Quotient(newWidth * settings.height, settings.width),
                              settings.slats, settings.angle)
        ELSE updateAndSave(newWidth, settings.height,
                           settings.slats, settings.angle)

\* heightInput 'input'
heightInput(text, lockAspect) ==
    LET newHeight == parseFloatOr1(text)
    IN  IF lockAspect
        THEN /\ ScalesExactly(newHeight, settings.width, settings.height)
             /\ updateAndSave(Quotient(newHeight * settings.width, settings.height),
                              newHeight, settings.slats, settings.angle)
        ELSE updateAndSave(settings.width, newHeight,
                           settings.slats, settings.angle)

\* applyPreset
applyPreset(presetId) ==
    /\ presetId \in DOMAIN presets
    /\ currentPreset' = presetId
    /\ UNCHANGED textureVars
    /\ updateBillboard(presets[presetId].width, presets[presetId].height,
                       presets[presetId].slats, presets[presetId].angle)
    /\ storage' = saveToLocalStorage(settings', animationSpeed, sweepAngle,
                                     currentPreset')

\* presetSelect 'change'
presetSelectChange(presetId) ==
    IF presetId # "" /\ presetId \in DOMAIN presets
    THEN applyPreset(presetId)
    ELSE /\ currentPreset' = Null
         /\ UNCHANGED << settings, geometry, boardVars, textureVars, storage >>

\* swapImages
swapImages ==
    /\ textureA' = textureB
    /\ textureB' = textureA
    /\ imageAspect' = [textureA |-> imageAspect["textureB"],
                       textureB |-> imageAspect["textureA"]]
    /\ previewSrc' = [textureA |-> previewSrc["textureB"],
                      textureB |-> previewSrc["textureA"]]
    /\ updateBillboard(settings.width, settings.height,
                       settings.slats, settings.angle)
    /\ UNCHANGED << currentPreset, storage, loads >>

\* loadImage: the callback of loader.load for one slot.
textureLoaded(textureKey, texture) ==
    /\ IF textureKey = "textureA"
       THEN textureA' = texture /\ UNCHANGED textureB
       ELSE textureB' = texture /\ UNCHANGED textureA
    /\ updateBillboard(settings.width, settings.height,
                       settings.slats, settings.angle)
    /\ UNCHANGED << currentPreset, storage >>

\* The files the user can choose, and what the browser makes of a file:
\* the data URL FileReader delivers, the texture TextureLoader builds from
\* it, and img.width / img.height in hundredths.
Files == {"f1", "f2"}
MaxUploads == 2

UrlOf(file) ==
    CASE file = "f1" -> "data:f1" [] file = "f2" -> "data:f2" [] OTHER -> Null
TextureOf(file) ==
    CASE file = "f1" -> "texture:f1" [] file = "f2" -> "texture:f2"
      [] OTHER -> Null
AspectOf(file) ==
    CASE file = "f1" -> 150 [] file = "f2" -> 100 [] OTHER -> 0

\* loadImage(file, textureKey, ..): reader.readAsDataURL(file)
loadImage(file, textureKey) ==
    /\ chosen.n < MaxUploads
    /\ loads' = loads \cup {[id |-> chosen.n + 1, file |-> file,
                             textureKey |-> textureKey, stage |-> "reader"]}
    /\ chosen' = [files |-> [chosen.files EXCEPT ![textureKey] = file],
                  n |-> chosen.n + 1]
    /\ UNCHANGED << previewSrc, imageAspect >>

\* reader.onload: the thumbnail takes the URL, and an Image and a
\* TextureLoader start loading it.
readerOnload(l) ==
    /\ l \in loads /\ l.stage = "reader"
    /\ previewSrc' = [previewSrc EXCEPT ![l.textureKey] = UrlOf(l.file)]
    /\ loads' = (loads \ {l}) \cup {[l EXCEPT !.stage = "image"],
                                     [l EXCEPT !.stage = "texture"]}
    /\ UNCHANGED << imageAspect, chosen >>

\* img.onload
imgOnload(l) ==
    /\ l \in loads /\ l.stage = "image"
    /\ imageAspect' = [imageAspect EXCEPT ![l.textureKey] = AspectOf(l.file)]
    /\ loads' = loads \ {l}
    /\ UNCHANGED << previewSrc, chosen >>

\* The callback of loader.load for the load l.
loaderOnLoad(l) ==
    /\ l \in loads /\ l.stage = "texture"
    /\ textureLoaded(l.textureKey, TextureOf(l.file))
    /\ loads' = loads \ {l}
    /\ UNCHANGED << previewSrc, imageAspect, chosen >>

\* Positions of the speed slider (min 1, max 10).
SpeedSliderValues == {1, 10}

\* speedSlider 'input'
speedSliderInput(v) ==
    /\ animationSpeed' = v
    /\ storage' = saveToLocalStorage(settings, animationSpeed', sweepAngle,
                                     currentPreset)
    /\ UNCHANGED << settings, geometry, boardVars, textureVars, currentPreset,
                    sweepAngle >>

\* loadFromLocalStorage over the constructor's defaults.
loadFromLocalStorage(data) ==
    [settings       |-> data.settings,
     animationSpeed |-> IF data.animationSpeed # 0
                        THEN data.animationSpeed ELSE 2,
     sweepAngle     |-> IF data.sweepAngle # 0 THEN data.sweepAngle ELSE 110,
     currentPreset  |-> data.currentPreset]

\* The page is loaded again: the constructor, loadFromLocalStorage and
\* initScene with a new scene and no texture.
reload ==
    LET loaded == loadFromLocalStorage(storage)
    IN  /\ settings' = loaded.settings
        /\ animationSpeed' = loaded.animationSpeed
        /\ sweepAngle' = loaded.sweepAngle
        /\ currentPreset' = loaded.currentPreset
        /\ textureA' = Null
        /\ textureB' = Null
        /\ geometry' = createZigzagGeometry(settings'.width, settings'.height,
                                            settings'.slats, settings'.angle)
        /\ billboard' = createBillboardGroup(settings'.width, settings'.height,
                                             settings'.slats, settings'.angle,
                                             Null, Null)
        /\ sceneBoards' = 1
        /\ leaked' = 0
        /\ safezone' = NoSafezone
        /\ UNCHANGED storage

-----------------------------------------------------------------------------
(* Specifications.                                                         *)

\* The sweep formula on its own: SweepAt evaluates it at one progress.
SweepProbes == {0, 30, 60, 90, 120}

SweepAt(p) ==
    /\ sweepTab' = sweepTab
          \cup {[progress |-> p, by |-> "preview",
                 angle |-> PreviewAngle(p, sweepAngle)]}
          \cup (IF p < FrameCount
                THEN {[progress |-> ExportProgress(p), by |-> "export",
                       angle |-> ExportAngle(p, sweepAngle)]}
                ELSE {})
    /\ UNCHANGED << geomVars, sweepAngle, animationSpeed >>
    /\ UNCHANGED << camVars, auxVars >>

DefaultSettings ==
    /\ settings = [width |-> 30, height |-> 15, slats |-> 1, angle |-> 45]
    /\ geometry = createZigzagGeometry(settings.width, settings.height,
                                       settings.slats, settings.angle)

InitGeom ==
    /\ InitGeometry
    /\ sweepAngle = 110
    /\ animationSpeed = 2
    /\ sweepTab = {}
    /\ InitCamera
    /\ InitAux
    /\ InitBoard

NextGeom ==
    \E w \in Widths, h \in Heights, s \in 1..MaxSlats, a \in Angles :
        /\ UNCHANGED << textureVars, currentPreset >>
        /\ updateBillboard(w, h, s, a)
        /\ storage' = saveToLocalStorage(settings', animationSpeed, sweepAngle,
                                         currentPreset')
        /\ UNCHANGED << sweepAngle, animationSpeed, sweepTab >>
        /\ UNCHANGED << camVars, auxVars >>

SpecGeom == InitGeom /\ [][NextGeom]_vars

InitSweep ==
    /\ DefaultSettings
    /\ sweepAngle \in 0..MaxSweepDeg
    /\ animationSpeed = 2
    /\ sweepTab = {}
    /\ InitCamera
    /\ InitAux
    /\ InitBoard

NextSweep == \E p \in SweepProbes : SweepAt(p)

SpecSweep == InitSweep /\ [][NextSweep]_vars

InitCam ==
    /\ DefaultSettings
    /\ sweepAngle \in Sweeps
    /\ animationSpeed \in Speeds
    /\ sweepTab = {}
    /\ InitCamera
    /\ InitAux
    /\ InitBoard

NextCam ==
    \/ \E dt \in FrameTicks, dragTo \in {camera.az} \cup UserAzimuths :
           /\ AnimationFrame(dt, dragTo, camera.dist)
           /\ UNCHANGED nonCamVars
    \/ playPreview /\ UNCHANGED nonCamVars
    \/ \E fail \in Failures :
           exportGif(fail) /\ UNCHANGED nonCamVars
    \/ \E k \in 1..Len(exports) :
           encoderFinished(k) /\ UNCHANGED nonCamVars
    \/ \E k \in 1..Len(exports) :
           encoderFailed(k) /\ UNCHANGED nonCamVars

SpecCam == InitCam /\ [][NextCam]_vars

\* The viewer driven by clicks alone: the user never drags the camera, and
\* frames come 2.5 s or 3.75 s apart.
ClickFrameTicks == {20, 30}

NextClicks ==
    \/ \E dt \in ClickFrameTicks :
           /\ AnimationFrame(dt, camera.az, camera.dist)
           /\ UNCHANGED nonCamVars
    \/ playPreview /\ UNCHANGED nonCamVars
    \/ \E fail \in Failures :
           exportGif(fail) /\ UNCHANGED nonCamVars
    \/ \E k \in 1..Len(exports) :
           encoderFinished(k) /\ UNCHANGED nonCamVars
    \/ \E k \in 1..Len(exports) :
           encoderFailed(k) /\ UNCHANGED nonCamVars

SpecClicks == InitCam /\ [][NextClicks]_vars

\* The camera under the wheel: frames in which the user zooms, previews,
\* and exports that run to their end.
NextOrbit ==
    \/ \E dt \in FrameTicks, zoomTo \in {camera.dist} \cup UserDistances :
           /\ AnimationFrame(dt, camera.az, zoomTo)
           /\ UNCHANGED nonCamVars
    \/ playPreview /\ UNCHANGED nonCamVars
    \/ exportGif([kind |-> "none", at |-> FrameCount]) /\ UNCHANGED nonCamVars
    \/ \E k \in 1..Len(exports) :
           encoderFinished(k) /\ UNCHANGED nonCamVars

SpecOrbit == InitCam /\ [][NextOrbit]_vars

\* The preview under the browser's frame scheduling: animate and a running
\* animatePreview ask for the next frame in every frame, so frames keep
\* coming; the user drags, moves the speed slider, previews and exports.
MaxPreviewExports == 1

FramePasses ==
    \E dt \in FrameTicks, dragTo \in {camera.az} \cup UserAzimuths :
        /\ AnimationFrame(dt, dragTo, camera.dist)
        /\ UNCHANGED nonCamVars

NextPreview ==
    \/ FramePasses
    \/ playPreview /\ UNCHANGED nonCamVars
    \/ /\ Len(exports) < MaxPreviewExports
       /\ exportGif([kind |-> "none", at |-> FrameCount])
       /\ UNCHANGED nonCamVars
    \/ \E k \in 1..Len(exports) :
           encoderFinished(k) /\ UNCHANGED nonCamVars
    \/ \E v \in SpeedSliderValues :
           speedSliderInput(v) /\ UNCHANGED << sweepTab, camVars, auxVars >>

SpecPreview == InitCam /\ [][NextPreview]_vars /\ WF_vars(FramePasses)

\* The sweep slider with its return timer, previews and exports.  Frames
\* are dt ticks apart, more than the timer's 1 s (8 ticks): a timeout set
\* between two frames may still be pending in the next frame and has fired
\* before the one after.  The history variable sinceAdjust is "clean" from
\* an adjustment made while nothing runs until a preview or an export is
\* started after the return timer has fired ("late").
ExportPending == \E k \in 1..Len(exports) : exports[k].promise = "pending"

noteStart ==
    sinceAdjust' = IF sinceAdjust = "clean" /\ timers = {}
                   THEN "late" ELSE sinceAdjust

noteAdjust ==
    sinceAdjust' = IF pv.active \/ ExportPending THEN "busy" ELSE "clean"

unchangedBySlider == << geomVars, sweepAngle, animationSpeed, sweepTab, crop,
                        reported, sweepTimeout, timers, imageVars, viewport >>

NextSlider ==
    \/ \E dt \in FrameTicks :
           /\ \A t \in timers : t.frames = 0
           /\ AnimationFrame(dt, camera.az, camera.dist)
           /\ timers' = {[t EXCEPT !.frames = 1] : t \in timers}
           /\ UNCHANGED << geomVars, sweepAngle, animationSpeed, sweepTab,
                           crop, reported, sweepTimeout, sinceAdjust,
                           imageVars, viewport >>
    \/ playPreview /\ noteStart /\ UNCHANGED unchangedBySlider
    \/ /\ Len(exports) < MaxPreviewExports
       /\ exportGif([kind |-> "none", at |-> FrameCount])
       /\ noteStart
       /\ UNCHANGED unchangedBySlider
    \/ \E k \in 1..Len(exports) :
           encoderFinished(k) /\ UNCHANGED nonCamVars
    \/ \E v \in SweepSliderValues :
           /\ sweepSliderInput(v)
           /\ noteAdjust
           /\ UNCHANGED << sweepTab, crop, reported, imageVars, viewport >>
    \/ \E t \in timers :
           /\ sweepTimerFires(t)
           /\ UNCHANGED << geomVars, sweepAngle, animationSpeed, sweepTab,
                           crop, reported, sinceAdjust, imageVars, viewport >>

SpecSlider == InitCam /\ [][NextSlider]_vars

\* The image slots: uploads, their callbacks in any order, and swaps.  The
\* history variable chosen follows the content of a slot through a swap.
unchangedByImages == << sweepAngle, animationSpeed, sweepTab, camVars, crop,
                        reported, timerVars, viewport >>

NextImages ==
    \/ \E file \in Files, textureKey \in TextureKeys :
           /\ loadImage(file, textureKey)
           /\ UNCHANGED << geomVars, unchangedByImages >>
    \/ \E l \in loads :
           /\ readerOnload(l)
           /\ UNCHANGED << geomVars, unchangedByImages >>
    \/ \E l \in loads :
           /\ imgOnload(l)
           /\ UNCHANGED << geomVars, unchangedByImages >>
    \/ \E l \in loads :
           /\ loaderOnLoad(l)
           /\ UNCHANGED unchangedByImages
    \/ /\ swapImages
       /\ chosen' = [chosen EXCEPT
                        !.files = [textureA |-> chosen.files["textureB"],
                                   textureB |-> chosen.files["textureA"]]]
       /\ UNCHANGED unchangedByImages

SpecImages == InitCam /\ [][NextImages]_vars

\* Saving and loading: the controls that save, the sweep slider's timer,
\* and the page loaded again, which starts a fresh viewer from the storage.
unchangedByStorage == << sweepTab, crop, reported, imageVars, viewport,
                         isAnimating, pv,
                         previewBtnDisabled, exportBtnDisabled, exports,
                         cameraY >>

NextStorage ==
    \/ \E v \in SweepSliderValues :
           /\ sweepSliderInput(v)
           /\ UNCHANGED << sweepTab, crop, reported, imageVars, viewport,
                           sinceAdjust >>
    \/ \E t \in timers :
           /\ sweepTimerFires(t)
           /\ UNCHANGED << geomVars, sweepAngle, animationSpeed, sweepTab,
                           crop, reported, imageVars, viewport, sinceAdjust >>
    \/ \E v \in SpeedSliderValues :
           speedSliderInput(v) /\ UNCHANGED << sweepTab, camVars, auxVars >>
    \/ \E v \in AngleSliderValues :
           /\ angleSliderInput(v)
           /\ UNCHANGED << sweepAngle, animationSpeed, sweepTab, camVars, auxVars >>
    \/ \E presetId \in PresetOptions :
           /\ presetSelectChange(presetId)
           /\ UNCHANGED << sweepAngle, animationSpeed, sweepTab, camVars, auxVars >>
    \/ /\ reload
       /\ camera' = OrbitPosition(0, 5)
       /\ theta' = 0
       /\ camWriter' = "init"
       /\ sweepTimeout' = 0
       /\ timers' = {}
       /\ sinceAdjust' = "none"
       /\ UNCHANGED unchangedByStorage

SpecStorage == InitCam /\ [][NextStorage]_vars

\* The viewer driven through its settings controls, presets and image
\* slots, from the settings an earlier session stored.
StoredSettings ==
    {[width |-> 30, height |-> 15, slats |-> 5, angle |-> 45]}

InitControls ==
    /\ settings \in StoredSettings
    /\ geometry = createZigzagGeometry(settings.width, settings.height,
                                       settings.slats, settings.angle)
    /\ sweepAngle = 110
    /\ animationSpeed = 2
    /\ sweepTab = {}
    /\ InitCamera
    /\ InitAux
    /\ InitBoard

NextControls ==
    \/ \E v \in SlatsSliderValues :
          /\ slatsSliderInput(v)
          /\ UNCHANGED << sweepAngle, animationSpeed, sweepTab, camVars, auxVars >>
    \/ \E v \in AngleSliderValues :
          /\ angleSliderInput(v)
          /\ UNCHANGED << sweepAngle, animationSpeed, sweepTab, camVars, auxVars >>
    \/ \E text \in TypedTexts, lockAspect \in BOOLEAN :
          /\ widthInput(text, lockAspect)
          /\ UNCHANGED << sweepAngle, animationSpeed, sweepTab, camVars, auxVars >>
    \/ \E text \in TypedTexts, lockAspect \in BOOLEAN :
          /\ heightInput(text, lockAspect)
          /\ UNCHANGED << sweepAngle, animationSpeed, sweepTab, camVars, auxVars >>
    \/ \E presetId \in PresetOptions :
          /\ presetSelectChange(presetId)
          /\ UNCHANGED << sweepAngle, animationSpeed, sweepTab, camVars, auxVars >>
    \/ /\ swapImages
       /\ UNCHANGED << sweepAngle, animationSpeed, sweepTab, camVars, crop,
                       reported, timerVars, chosen, viewport >>
    \/ \E textureKey \in {"textureA", "textureB"}, texture \in Textures :
          /\ textureLoaded(textureKey, texture)
          /\ UNCHANGED << sweepAngle, animationSpeed, sweepTab, camVars, auxVars >>
    \/ /\ reload
       /\ UNCHANGED << sweepTab, camVars, auxVars >>

SpecControls == InitControls /\ [][NextControls]_vars

\* The crop arithmetic on its own: every input, then its evaluation.
InitCrop ==
    /\ DefaultSettings
    /\ sweepAngle = 110
    /\ animationSpeed = 2
    /\ sweepTab = {}
    /\ InitCamera
    /\ crop \in CropInputs
    /\ reported = NoReports
    /\ viewport = DefaultViewport
    /\ InitBoard

NextCrop ==
    /\ exportCrop
    /\ UNCHANGED << geomVars, sweepAngle, animationSpeed, sweepTab, camVars,
                    reported, timerVars, imageVars, viewport >>

SpecCrop == InitCrop /\ [][NextCrop]_vars

\* The safe-zone overlay next to the crop of an export: the page opens in a
\* viewport, and the user resizes it, shows or hides the overlay, changes
\* the board's size and exports.
InitSafezone ==
    /\ DefaultSettings
    /\ sweepAngle = 110
    /\ animationSpeed = 2
    /\ sweepTab = {}
    /\ InitCamera
    /\ crop = NoCrop
    /\ reported = NoReports
    /\ viewport \in [clientWidth : ClientWidths, clientHeight : ClientHeights,
                      pixelRatio : PixelRatios]
    /\ InitBoard

unchangedBySafezone == << sweepAngle, animationSpeed, sweepTab, camVars,
                          reported, timerVars, imageVars >>

NextSafezone ==
    \/ \E checked \in BOOLEAN :
           /\ showSafezoneChange(checked)
           /\ UNCHANGED << settings, geometry, billboard, sceneBoards, leaked,
                           textureVars, currentPreset, storage, crop, viewport,
                           unchangedBySafezone >>
    \/ \E clientWidth \in ClientWidths, clientHeight \in ClientHeights :
           /\ onResize(clientWidth, clientHeight)
           /\ UNCHANGED << settings, geometry, billboard, sceneBoards, leaked,
                           textureVars, currentPreset, storage, crop,
                           unchangedBySafezone >>
    \/ \E w \in Widths, h \in Heights :
           /\ updateAndSave(w, h, settings.slats, settings.angle)
           /\ UNCHANGED << crop, viewport, unchangedBySafezone >>
    \/ /\ exportCropOfCanvas
       /\ UNCHANGED << geomVars, viewport, unchangedBySafezone >>

SpecSafezone == InitSafezone /\ [][NextSafezone]_vars

\* The progress callback of one export call.
InitProgress ==
    /\ DefaultSettings
    /\ sweepAngle = 110
    /\ animationSpeed = 2
    /\ sweepTab = {}
    /\ InitCamera
    /\ InitAux
    /\ InitBoard

NextProgress ==
    \/ /\ captureFrame
       /\ UNCHANGED << geomVars, sweepAngle, animationSpeed, sweepTab, camVars,
                       crop, timerVars, imageVars, viewport >>
    \/ \E q \in EncoderQuarters :
          /\ encoderProgress(q)
          /\ UNCHANGED << geomVars, sweepAngle, animationSpeed, sweepTab,
                          camVars, crop, timerVars, imageVars, viewport >>

SpecProgress == InitProgress /\ [][NextProgress]_vars

\* An export from the click to the settled promise, with its progress
\* callback: the capture loop reports once per pass, then the encoder
\* reports and finishes or fails, while frames pass and the user drags.
unchangedByEncode == << geomVars, sweepAngle, animationSpeed, sweepTab, crop,
                        timerVars, imageVars, viewport >>

EncoderRunning == \E k \in 1..Len(exports) : exports[k].encoder = "running"

NextEncode ==
    \/ \E dt \in FrameTicks, dragTo \in {camera.az} \cup UserAzimuths :
           /\ AnimationFrame(dt, dragTo, camera.dist)
           /\ UNCHANGED << reported, unchangedByEncode >>
    \/ \E fail \in Failures :
           /\ Len(exports) < MaxPreviewExports
           /\ exportGif(fail)
           /\ reported' = [i      |-> Len(exports'[Len(exports')].frames),
                           values |-> [j \in 1..Len(exports'[Len(exports')].frames)
                                          |-> CaptureProgress(j - 1)],
                           ps     |-> << >>]
           /\ UNCHANGED unchangedByEncode
    \/ \E q \in EncoderQuarters :
           /\ EncoderRunning
           /\ encoderProgress(q)
           /\ UNCHANGED << camVars, unchangedByEncode >>
    \/ \E k \in 1..Len(exports) :
           encoderFinished(k) /\ UNCHANGED << reported, unchangedByEncode >>
    \/ \E k \in 1..Len(exports) :
           encoderFailed(k) /\ UNCHANGED << reported, unchangedByEncode >>

SpecEncode == InitCam /\ [][NextEncode]_vars

-----------------------------------------------------------------------------
(* Properties of the geometry (SpecGeom).                                  *)

\* The u values of slat i (0-based) in a uv array: 6 (u, v) pairs per slat.
SlatUs(uvs, i) == {uvs[12 * i + 2 * j - 1] : j \in 1..6}
MinU(uvs, i) == CHOOSE a \in SlatUs(uvs, i) : \A b \in SlatUs(uvs, i) : FLe(a, b)
MaxU(uvs, i) == CHOOSE a \in SlatUs(uvs, i) : \A b \in SlatUs(uvs, i) : FLe(b, a)

\* The u intervals of the slats tile [0,1]: the first starts at 0, the last
\* ends at 1, and each ends where the next starts.
TilesUnitInterval(uvs, slats) ==
    /\ FEq(MinU(uvs, 0), FZero)
    /\ FEq(MaxU(uvs, slats - 1), FOne)
    /\ \A i \in 0..(slats - 2) : FEq(MaxU(uvs, i), MinU(uvs, i + 1))

\* C1: the u coordinates of the left-face set alone cover [0,1] across all
\* slats with no gaps and no overlaps, and so do those of the right-face set.
C1_EachFaceSetTilesUnitInterval ==
    /\ TilesUnitInterval(geometry.leftUvs, settings.slats)
    /\ TilesUnitInterval(geometry.rightUvs, settings.slats)

\* C2: each face set holds exactly slats * 2 triangles: 6 * slats vertices
\* of 3 numbers, with 6 * slats uv pairs.
C2_TwoTrianglesPerSlat ==
    /\ Len(geometry.leftVertices) = 3 * 3 * (settings.slats * 2)
    /\ Len(geometry.leftUvs) = 2 * 3 * (settings.slats * 2)
    /\ Len(geometry.rightVertices) = 3 * 3 * (settings.slats * 2)
    /\ Len(geometry.rightUvs) = 2 * 3 * (settings.slats * 2)

C2_Witness ==
    /\ settings.slats = 3
    /\ Len(geometry.leftVertices) = 54
    /\ Len(geometry.rightVertices) = 54

\* C3: every u and v of both face sets lies in [0,1].
C3_UvsInUnitInterval ==
    /\ \A k \in 1..Len(geometry.leftUvs) :
          FLe(FZero, geometry.leftUvs[k]) /\ FLe(geometry.leftUvs[k], FOne)
    /\ \A k \in 1..Len(geometry.rightUvs) :
          FLe(FZero, geometry.rightUvs[k]) /\ FLe(geometry.rightUvs[k], FOne)

C3_Witness ==
    /\ settings.slats = 3
    /\ FEq(geometry.leftUvs[1], FZero)
    /\ FEq(geometry.rightUvs[12 * 2 + 11], FOne)
    /\ FLt(FZero, geometry.rightUvs[1]) /\ FLt(geometry.rightUvs[1], FOne)

\* The x of the first and second vertex that slat i (0-based) pushed to the
\* left faces (xLeft, xMid) and to the right faces (xMid, xRight).
SlatXLeft(i)     == geometry.leftVertices[18 * i + 1]
SlatXMid(i)      == geometry.leftVertices[18 * i + 4]
SlatXMidRight(i) == geometry.rightVertices[18 * i + 1]
SlatXRight(i)    == geometry.rightVertices[18 * i + 4]

\* C20: the mesh spans [-width / 2, +width / 2], consecutive slats share
\* their edge, every xMid is the midpoint of its slat, and one slat of
\* width 2 is two triangles per side from x = -1 to x = +1.
C20_SlatsSpanTheWidth ==
    LET n == settings.slats
    IN  /\ FEq(SlatXLeft(0), Frac(-settings.width, 2))
        /\ FEq(SlatXRight(n - 1), Frac(settings.width, 2))
        /\ \A i \in 0..(n - 2) : FEq(SlatXRight(i), SlatXLeft(i + 1))
        /\ \A i \in 0..(n - 1) :
              /\ FEq(FAdd(SlatXMid(i), SlatXMid(i)),
                     FAdd(SlatXLeft(i), SlatXRight(i)))
              /\ FEq(SlatXMid(i), SlatXMidRight(i))
        /\ (n = 1 /\ settings.width = 20)
              => /\ Len(geometry.leftVertices) = 2 * 3 * 3
                 /\ Len(geometry.rightVertices) = 2 * 3 * 3
                 /\ FEq(SlatXLeft(0), Frac(-10, 1))
                 /\ FEq(SlatXRight(0), Frac(10, 1))

C20_Witness ==
    /\ settings.slats = 3 /\ settings.width = 20
    /\ FEq(SlatXRight(0), SlatXLeft(1))
    /\ FEq(SlatXRight(2), Frac(10, 1))
    /\ ~FEq(SlatXLeft(1), SlatXLeft(0))

\* The z values of a vertex array, and the z of the first peak vertex.
Zs(vertices) == {vertices[3 * k] : k \in 1..(Len(vertices) \div 3)}
PeakZ(geom) == geom.leftVertices[6]

\* C21: when a change of the angle alone raises the angle, the depth of the
\* peaks grows; the depth is positive for an angle above 0, and at angle 0
\* every vertex of both face sets has z = 0.
C21_PeakDepthGrowsWithAngle ==
    /\ [](/\ settings.angle = 0
             => \A z \in Zs(geometry.leftVertices) \cup Zs(geometry.rightVertices) :
                    FEq(z, FZero)
          /\ settings.angle > 0 => FLt(FZero, PeakZ(geometry))
          /\ \A z \in Zs(geometry.leftVertices) \cup Zs(geometry.rightVertices) :
                 FEq(z, FZero) \/ (z.d = PeakZ(geometry).d /\ z.n = PeakZ(geometry).n))
    /\ [][(/\ settings'.width = settings.width
            /\ settings'.slats = settings.slats
            /\ settings'.angle > settings.angle)
           => /\ PeakZ(geometry').d = PeakZ(geometry).d
              /\ PeakZ(geometry').n > PeakZ(geometry).n]_vars

C21_Witness ==
    /\ settings.angle = 1 /\ settings.slats = 3 /\ settings.width = 30
    /\ FLt(FZero, PeakZ(geometry))
    /\ PeakZ(geometry).n < peakDepth(30, 3, 30).n
    /\ PeakZ(geometry).d = peakDepth(30, 3, 30).d

\* The sign of a number, of a fraction, and a - b.
Sgn(n) == IF n > 0 THEN 1 ELSE IF n < 0 THEN -1 ELSE 0
FSgn(a) == Sgn(a.n) * Sgn(a.d)
FSub(a, b) ==
    IF a.d = b.d THEN Frac(a.n - b.n, a.d)
    ELSE Frac(a.n * b.d - b.n * a.d, a.d * b.d)

\* The sign of a1 * a2 - b1 * b2; the products are formed only when both
\* are non-zero and of one sign.
SgnOfDet(a1, a2, b1, b2) ==
    LET sa == FSgn(a1) * FSgn(a2)
        sb == FSgn(b1) * FSgn(b2)
    IN  IF sb = 0 THEN sa
        ELSE IF sa = 0 \/ sa # sb THEN -sb
        ELSE FSgn(FSub(Frac(a1.n * a2.n, a1.d * a2.d),
                       Frac(b1.n * b2.n, b1.d * b2.d)))

\* The k-th vertex of a position array, and the array's triangles.
VertexAt(vertices, k) ==
    [x |-> vertices[3 * k - 2], y |-> vertices[3 * k - 1], z |-> vertices[3 * k]]
TrianglesOf(vertices) == 1..(Len(vertices) \div 9)

\* The signs of the x and z components of the face normal of triangle t
\* with vertices A, B, C in the array's order: (C - B) x (A - B).
NormalSigns(vertices, t) ==
    LET A == VertexAt(vertices, 3 * t - 2)
        B == VertexAt(vertices, 3 * t - 1)
        C == VertexAt(vertices, 3 * t)
        cb == [x |-> FSub(C.x, B.x), y |-> FSub(C.y, B.y), z |-> FSub(C.z, B.z)]
        ab == [x |-> FSub(A.x, B.x), y |-> FSub(A.y, B.y), z |-> FSub(A.z, B.z)]
    IN  [x |-> SgnOfDet(cb.y, ab.z, cb.z, ab.y),
         z |-> SgnOfDet(cb.x, ab.y, cb.y, ab.x)]

\* C29: every triangle of both face sets has a face normal with positive
\* z; the normals of the left faces have x <= 0 and those of the right
\* faces x >= 0, for every width, height, slat count and angle below 90.
C29_TrianglesFaceTheViewer ==
    /\ \A t \in TrianglesOf(geometry.leftVertices) :
           /\ NormalSigns(geometry.leftVertices, t).z = 1
           /\ NormalSigns(geometry.leftVertices, t).x <= 0
    /\ \A t \in TrianglesOf(geometry.rightVertices) :
           /\ NormalSigns(geometry.rightVertices, t).z = 1
           /\ NormalSigns(geometry.rightVertices, t).x >= 0

C29_Witness ==
    /\ settings.angle = 89 /\ settings.slats = 2 /\ settings.width = 360
    /\ TrianglesOf(geometry.leftVertices) = 1..4
    /\ \A t \in 1..4 :
           /\ NormalSigns(geometry.leftVertices, t) = [x |-> -1, z |-> 1]
           /\ NormalSigns(geometry.rightVertices, t) = [x |-> 1, z |-> 1]

-----------------------------------------------------------------------------
(* Properties of the export and the preview (SpecCam, SpecClicks).         *)

Settled(k) == exports[k].promise # "pending"

\* C4: when an export call fails, the step that fails leaves the camera at
\* the azimuth and distance the call recorded at its start.
C4_CameraRestoredOnFailure ==
    [][ (/\ Len(exports') = Len(exports) + 1
         /\ exports'[Len(exports')].failure # "none")
        => camera' = OrbitPosition(exports'[Len(exports')].originalAzimuth,
                                   exports'[Len(exports')].distance) ]_vars

\* C5: an export in which the renderer or the encoder failed has a rejected
\* promise: it does not stay pending (and is not resolved).
C5_FailureRejectsPromise ==
    \A k \in 1..Len(exports) :
        exports[k].failure # "none" => exports[k].promise = "rejected"

\* C6: when a second export was started while the first was in progress and
\* both have completed (without any failure), the camera, as the exports
\* left it, is at the azimuth the first call recorded.
C6_ConcurrentExportsRestoreFirstAzimuth ==
    (/\ Len(exports) = 2
     /\ exports[2].concurrent
     /\ exports[1].promise = "resolved" /\ exports[2].promise = "resolved"
     /\ camWriter = "export")
    => camera.az = exports[1].originalAzimuth

\* C7: at most one export is in progress (started, promise not settled).
C7_AtMostOneExportInProgress ==
    Cardinality({k \in 1..Len(exports) : ~Settled(k)}) <= 1

\* C8: a frame an export captured at the progress and sweep angle of the
\* pose the running preview has just written was captured at the same
\* azimuth and, for the same distance, at the same camera position.
C8_ExportSamplesThePreview ==
    (pv.active /\ pv.elapsed > 0 /\ camWriter = "preview") =>
        \A k \in 1..Len(exports) : \A f \in 1..Len(exports[k].frames) :
            (/\ exports[k].sweep = pv.sweep
             /\ exports[k].frames[f].progress
                  = PreviewProgress(pv.elapsed, pv.speed))
            => /\ exports[k].frames[f].pose.az = camera.az
               /\ exports[k].distance = pv.distance
                    => exports[k].frames[f].pose = camera

C8_Witness ==
    /\ pv.active /\ pv.elapsed > 0 /\ camWriter = "preview"
    /\ camera.az # 0
    /\ \E k \in 1..Len(exports) : \E f \in 1..Len(exports[k].frames) :
          /\ exports[k].sweep = pv.sweep
          /\ exports[k].frames[f].progress = PreviewProgress(pv.elapsed, pv.speed)
          /\ exports[k].frames[f].pose = camera

\* C10: an export call appends its frames in strictly increasing progress,
\* the i-th at progress i / FrameCount < 1, and a call whose loop ran to its
\* end appended exactly FrameCount frames.
C10_FramesEvenlySpacedInOrder ==
    [][Len(exports') > Len(exports) =>
          LET call == exports'[Len(exports')]
              fr == call.frames
          IN  /\ \A i \in 1..Len(fr) :
                    fr[i].progress = i - 1 /\ fr[i].progress < FrameCount
              /\ \A i \in 1..(Len(fr) - 1) :
                    fr[i].progress < fr[i + 1].progress
              /\ call.failure # "render"
                    => Len(fr) = FrameCount]_vars

C10_Witness ==
    \E k \in 1..Len(exports) :
        /\ exports[k].promise = "resolved"
        /\ Len(exports[k].frames) = FrameCount
        /\ exports[k].frames[FrameCount].progress = FrameCount - 1

-----------------------------------------------------------------------------
(* Properties of the sweep formula (SpecSweep).                            *)

\* C9: the sweep angle at progress 0 equals the one at progress 1, and the
\* one at progress 0.5 is its negation, for every sweep angle.
C9_SweepClosesAndIsSymmetric ==
    \A a \in sweepTab : \A b \in sweepTab :
        /\ (a.progress = 0 /\ b.progress = FrameCount) => a.angle = b.angle
        /\ (a.progress = 0 /\ 2 * b.progress = FrameCount) => b.angle = -a.angle

C9_Witness ==
    /\ sweepAngle = 110
    /\ \E a \in sweepTab : a.progress = 0 /\ a.angle = -Deg(55)
    /\ \E b \in sweepTab : b.progress = FrameCount /\ b.angle = -Deg(55)
    /\ \E c \in sweepTab : 2 * c.progress = FrameCount /\ c.angle = Deg(55)

-----------------------------------------------------------------------------
(* Properties of the crop and scale arithmetic (SpecCrop).                 *)

\* C11: the crop rectangle lies inside the source frame.
C11_CropInsideSurface ==
    crop.done =>
        /\ crop.cropX >= 0
        /\ crop.cropY >= 0
        /\ crop.cropX + crop.cropWidth <= crop.width
        /\ crop.cropY + crop.cropHeight <= crop.height

C11_Witness ==
    /\ crop.done
    /\ crop.cropX > 0
    /\ crop.cropX + crop.cropWidth < crop.width

\* C12: the output is never larger than maxWidth allows nor than the crop.
C12_ScaledDownOnly ==
    crop.done =>
        /\ crop.outputWidth <= crop.maxWidth
        /\ crop.outputWidth <= crop.cropWidth
        /\ crop.outputHeight <= crop.cropHeight

C12_Witness ==
    /\ crop.done
    /\ crop.maxWidth < crop.cropWidth
    /\ crop.outputWidth = crop.maxWidth
    /\ 0 < crop.outputHeight /\ crop.outputHeight < crop.cropHeight

\* C13: a surface relatively wider than the board is cropped at the sides,
\* any other at top and bottom, the crop is centred, and a 2 : 1 board on an
\* 800 x 600 surface gives a crop of 800 x 400 at y = 100.
C13_CropDirectionAndCentre ==
    crop.done =>
        /\ IF crop.width * crop.billboardHeight > crop.billboardWidth * crop.height
           THEN /\ crop.cropHeight = crop.height
                /\ crop.cropWidth
                     = (crop.height * crop.billboardWidth) \div crop.billboardHeight
                /\ crop.cropY = 0
                /\ crop.cropX = (crop.width - crop.cropWidth) \div 2
           ELSE /\ crop.cropWidth = crop.width
                /\ crop.cropHeight
                     = (crop.width * crop.billboardHeight) \div crop.billboardWidth
                /\ crop.cropX = 0
                /\ crop.cropY = (crop.height - crop.cropHeight) \div 2
        /\ (/\ crop.billboardWidth = 2 * crop.billboardHeight
            /\ crop.width = 800 /\ crop.height = 600)
           => (crop.cropWidth = 800 /\ crop.cropHeight = 400 /\ crop.cropY = 100)

C13_Witness ==
    /\ crop.done
    /\ crop.billboardWidth = 2 * crop.billboardHeight
    /\ crop.width = 800 /\ crop.height = 600
    /\ crop.cropHeight = 400 /\ crop.cropY = 100

-----------------------------------------------------------------------------
(* Properties of the progress callback (SpecProgress).                     *)

NonDecreasing(seq) == \A k \in 1..(Len(seq) - 1) : seq[k] <= seq[k + 1]

\* C17: capture values are (i + 1) / frameCount * 0.5 in (0, 0.5], the last
\* one is 0.5, encoding values lie in [0.5, 1], and the values never
\* decrease when the encoder's own progress never decreases.
C17_ProgressSplitInHalves ==
    /\ \A k \in 1..reported.i :
          /\ reported.values[k] * FrameCount * 2 = k * ProgressUnit
          /\ 0 < reported.values[k]
          /\ 2 * reported.values[k] <= ProgressUnit
    /\ reported.i = FrameCount
          => 2 * reported.values[FrameCount] = ProgressUnit
    /\ \A k \in (reported.i + 1)..Len(reported.values) :
          /\ ProgressUnit <= 2 * reported.values[k]
          /\ reported.values[k] <= ProgressUnit
          /\ 2 * reported.values[k]
               = ProgressUnit + (reported.ps[k - reported.i] * ProgressUnit) \div 4
    /\ NonDecreasing(reported.ps) => NonDecreasing(reported.values)

C17_Witness ==
    /\ reported.i = FrameCount
    /\ reported.ps = << 1, 2, 4 >>
    /\ reported.values[Len(reported.values)] = ProgressUnit

-----------------------------------------------------------------------------
(* Properties of the settings controls and the image slots (SpecControls). *)

\* C14: one billboard is in the scene, and no geometry or material of a
\* replaced billboard is left undisposed.
C14_ReplacedBillboardsDisposed ==
    /\ sceneBoards = 1
    /\ leaked = 0

C14_Witness ==
    /\ currentPreset = "20136" /\ billboard.slats = 27
    /\ textureA = Null /\ textureB = "t1"
    /\ billboard.materialB.map = "t1"
    /\ sceneBoards = 1 /\ leaked = 0

\* C15: the billboard in the scene was never generated from a slat count
\* below 1, an angle of 90 degrees or more, or a width or height that is not
\* positive.
C15_InvalidConfigurationRejected ==
    /\ billboard.slats >= 1
    /\ billboard.angle < 90
    /\ billboard.width > 0
    /\ billboard.height > 0

\* C28: for every positive surface size, board size and maxWidth, the crop
\* rectangle and the encoder's output are at least one pixel wide and high.
C28_CropAndOutputNonEmpty ==
    crop.done
        => /\ crop.cropWidth >= 1
           /\ crop.cropHeight >= 1
           /\ crop.outputWidth >= 1
           /\ crop.outputHeight >= 1

\* The overlay and the crop belong together: the overlay is shown and
\* up to date, and the crop was computed for this canvas and this board.
OverlayAndCropTogether ==
    /\ safezone.visible
    /\ crop.done
    /\ crop.width = CanvasSize(viewport.clientWidth, viewport.pixelRatio)
    /\ crop.height = CanvasSize(viewport.clientHeight, viewport.pixelRatio)
    /\ crop.billboardWidth = settings.width
    /\ crop.billboardHeight = settings.height

\* Both rectangles span the whole width, or both span the whole height.
SameCropDirection ==
    \/ safezone.cropWidth = viewport.clientWidth /\ crop.cropWidth = crop.width
    \/ safezone.cropHeight = viewport.clientHeight /\ crop.cropHeight = crop.height

\* The canvas is exactly pixelRatio times the viewport.
CanvasIsExact ==
    /\ crop.width * viewport.pixelRatio.d
          = viewport.clientWidth * viewport.pixelRatio.n
    /\ crop.height * viewport.pixelRatio.d
          = viewport.clientHeight * viewport.pixelRatio.n

\* device - pixelRatio * css, times the ratio's denominator
ScaledGap(device, css) ==
    device * viewport.pixelRatio.d - css * viewport.pixelRatio.n

CropFields == {"cropWidth", "cropHeight", "cropX", "cropY"}

\* C27 as stated: the overlay's rectangle times the pixel ratio is the
\* export's crop rectangle, and both crop the same direction.
C27_OverlayTimesRatioIsCrop ==
    OverlayAndCropTogether
        => /\ SameCropDirection
           /\ \A f \in CropFields : ScaledGap(crop[f], safezone[f]) = 0

\* C27: when the canvas is exactly pixelRatio times the viewport, the
\* overlay and the export's crop rectangle crop the same direction, and
\* each of cropWidth, cropHeight, cropX, cropY of the export differs from
\* pixelRatio times the overlay's by less than pixelRatio device pixels
\* (less than one CSS pixel): the two are rounded down separately.
C27_OverlayWithinOnePixelOfCrop ==
    (OverlayAndCropTogether /\ CanvasIsExact)
        => /\ SameCropDirection
           /\ \A f \in CropFields :
                  /\ ScaledGap(crop[f], safezone[f]) < viewport.pixelRatio.n
                  /\ ScaledGap(crop[f], safezone[f]) > -viewport.pixelRatio.n

\* A 30 x 60 board in an 800 x 601 viewport at pixel ratio 2: the overlay is
\* 300 CSS pixels wide, the export's crop 601 device pixels.
C27_Witness ==
    /\ OverlayAndCropTogether
    /\ CanvasIsExact
    /\ viewport.pixelRatio = [n |-> 2, d |-> 1]
    /\ safezone.cropWidth = 300
    /\ crop.cropWidth = 601

\* C26: a viewer that starts from the storage has the width, height,
\* slats, angle, animation speed, sweep angle and preset that were saved.
C26_StorageRoundTrip ==
    [][reload
        => /\ settings' = storage.settings
           /\ animationSpeed' = storage.animationSpeed
           /\ sweepAngle' = storage.sweepAngle
           /\ currentPreset' = storage.currentPreset]_vars

\* The texture of a slot.
TextureOfSlot(textureKey) ==
    IF textureKey = "textureA" THEN textureA ELSE textureB

\* C25: once no load is pending, the texture, the thumbnail and the aspect
\* ratio of each slot come from the file last chosen for what the slot
\* holds.
C25_SlotShowsLastChosenFile ==
    loads = {} =>
        \A k \in TextureKeys :
            /\ TextureOfSlot(k) = TextureOf(chosen.files[k])
            /\ previewSrc[k] = UrlOf(chosen.files[k])
            /\ imageAspect[k] = AspectOf(chosen.files[k])

-----------------------------------------------------------------------------
(* Properties of the camera writes (SpecClicks, SpecOrbit).                *)

\* C16: an export whose frame capture completes leaves the camera where it
\* was when the export began.
C16_ExportLeavesCameraInPlace ==
    [][(/\ Len(exports') > Len(exports)
        /\ exports'[Len(exports')].failure # "render")
       => (camera' = camera /\ cameraY' = cameraY)]_vars

\* C22: a running preview finishes; it is still running only while the
\* elapsed time is below 3000 / (speed / 5) ms (120 / speed ticks); and the
\* step that finishes it clears isAnimating, enables the preview button and
\* puts the camera at the azimuth and distance recorded at its start.
C22_PreviewFinishes ==
    /\ (pv.active /\ pv.speed > 0) ~> ~pv.active
    /\ [](pv.active => isAnimating)
    /\ [][/\ (pv.active /\ pv'.active) => pv'.elapsed * pv.speed < 120
          /\ (pv.active /\ ~pv'.active)
               => /\ ~isAnimating'
                  /\ ~previewBtnDisabled'
                  /\ camera' = OrbitPosition(pv.originalAzimuth, pv.distance)
         ]_vars

C22_Witness ==
    /\ ~pv.active /\ ~isAnimating /\ ~previewBtnDisabled
    /\ camWriter = "preview"
    /\ camera = OrbitPosition(Deg(45), 5)
    /\ animationSpeed = 1

\* A step of the encoder's handlers: 'progress' reports a value, or a
\* running encoder finishes or fails.
EncoderEvent ==
    \/ Len(exports') = Len(exports) /\ reported' # reported
    \/ \E k \in 1..Len(exports) :
           exports[k].encoder = "running" /\ exports'[k].encoder # "running"

\* C30: export leaves the camera at the pose it found (originalAzimuth,
\* distance) in the step in which it starts the encoder and returns its
\* promise, and no step of the encoder's progress and finished handlers
\* writes the camera or the scene.
C30_EncodePhaseLeavesCameraAndScene ==
    [][/\ (/\ Len(exports') > Len(exports)
           /\ exports'[Len(exports')].encoder = "running")
          => /\ camera' = OrbitPosition(exports'[Len(exports')].originalAzimuth,
                                        exports'[Len(exports')].distance)
             /\ camWriter' = "export"
       /\ EncoderEvent
          => UNCHANGED << camera, cameraY, theta, camWriter, settings,
                          geometry, billboard, sceneBoards, textureVars >>]_vars

C30_Witness ==
    /\ Len(exports) = 1
    /\ exports[1].encoder = "finished" /\ exports[1].promise = "resolved"
    /\ Len(reported.ps) = 2 /\ reported.i = FrameCount
    /\ exports[1].originalAzimuth = Deg(45)
    /\ camWriter = "export"
    /\ camera = OrbitPosition(Deg(45), 5)

\* C23: no export begins its frame capture while a preview is running:
\* isAnimating is false in the state in which export is called.
C23_NoExportDuringPreview ==
    [][Len(exports') > Len(exports) => ~isAnimating]_vars

\* C24: at most one return timer is pending, and after an adjustment of
\* the sweep slider, once its timer has fired and the preview or export
\* started before it fired has finished, the camera is at azimuth 0.
C24_SweepReturnEndsAtCentre ==
    /\ Cardinality(timers) <= 1
    /\ (/\ sinceAdjust = "clean"
        /\ timers = {}
        /\ ~pv.active
        /\ ~ExportPending)
       => camera.az = 0

\* The square of camera.position.length() for a position on the orbit.
LengthSq(position, y) == position.dist * position.dist + y * y

\* C19: every camera write of a preview or an export leaves y alone and
\* puts the camera at the distance from the origin that was recorded when
\* the preview or the export started.
C19_WritesStayOnTheOrbit ==
    [][/\ (pv'.active /\ ~pv.active)
            => pv'.distance * pv'.distance = LengthSq(camera, cameraY)
       /\ (pv.active /\ (pv'.elapsed > pv.elapsed \/ ~pv'.active))
            => /\ cameraY' = cameraY
               /\ LengthSq(camera', cameraY') = pv.distance * pv.distance
       /\ Len(exports') > Len(exports)
            => LET call == exports'[Len(exports')]
               IN  /\ call.distance * call.distance = LengthSq(camera, cameraY)
                   /\ cameraY' = cameraY
                   /\ LengthSq(camera', cameraY') = call.distance * call.distance
                   /\ \A f \in 1..Len(call.frames) :
                         LengthSq(call.frames[f].pose, cameraY')
                            = call.distance * call.distance]_vars

C19_Witness ==
    /\ pv.active /\ pv.elapsed > 0 /\ camWriter = "preview"
    /\ pv.distance = 8 /\ camera.dist = 8 /\ camera.az # 0
    /\ \E k \in 1..Len(exports) :
          exports[k].distance = 5 /\ exports[k].frames[1].pose.dist = 5

=============================================================================
